---- MODULE Spec2Model ----
(***************************************************************************)
(* dropheus-backend: the /search request handler and the searchAliExpress  *)
(* pipeline (cache lookup, optional AI rewrite of the query, search with   *)
(* credential rotation, result projection, cache write).                   *)
(*                                                                         *)
(* JavaScript strings are sequences of tokens (<<"a", "|", "1">> is        *)
(* "a|1"); a token is an atomic substring, the literals of the code being  *)
(* written in the same tokens.  JavaScript values are tagged records.      *)
(* Code between two awaits runs atomically (one event-loop turn), so every *)
(* action is the code from one await to the next.                          *)
(***************************************************************************)
EXTENDS Integers, Sequences, FiniteSets, TLC

----------------------------------------------------------------------------
(* Bounds of the model *)

\* number of requests the server receives in one behaviour
MaxReq == 2
\* longest upstream result list a function applied on its own is given
MaxItems == 4

----------------------------------------------------------------------------
(* JavaScript values *)

Undefined == [t |-> "undefined"]
Null == [t |-> "null"]
NaN == [t |-> "NaN"]
Str(s) == [t |-> "string", s |-> s]
Num(n) == [t |-> "number", n |-> n]
Arr(a) == [t |-> "array", a |-> a]

\* ToBoolean, as used by !x, x ? a : b and x || y
Truthy(v) ==
    CASE v.t = "undefined" -> FALSE
      [] v.t = "null" -> FALSE
      [] v.t = "NaN" -> FALSE
      [] v.t = "string" -> v.s # <<>>
      [] v.t = "number" -> v.n # 0
      [] OTHER -> TRUE

\* a || b
Or(a, b) == IF Truthy(a) THEN a ELSE b

DigitTok == <<"0", "1", "2", "3", "4", "5", "6", "7", "8", "9">>
IsDigit(c) == \E d \in 1..10 : DigitTok[d] = c
DigitVal(c) == (CHOOSE d \in 1..10 : DigitTok[d] = c) - 1

RECURSIVE NatStr(_)
\* Number.prototype.toString of a non-negative integer
NatStr(n) == IF n < 10 THEN <<DigitTok[n + 1]>>
             ELSE NatStr(n \div 10) \o <<DigitTok[(n % 10) + 1]>>

\* String(v), as in a template literal `${v}` and in v.toString()
ToStr(v) ==
    CASE v.t = "string" -> v.s
      [] v.t = "number" -> NatStr(v.n)
      [] v.t = "NaN" -> <<"NaN">>
      [] v.t = "null" -> <<"null">>
      [] OTHER -> <<"undefined">>

RECURSIVE SkipSpaces(_)
SkipSpaces(s) == IF s # <<>> /\ Head(s) = " " THEN SkipSpaces(Tail(s)) ELSE s

RECURSIVE DigitsValue(_, _)
\* the value of the longest prefix of digits of s, acc being the value so far
DigitsValue(s, acc) ==
    IF s # <<>> /\ IsDigit(Head(s))
    THEN DigitsValue(Tail(s), acc * 10 + DigitVal(Head(s)))
    ELSE acc

\* parseInt(s): leading white space skipped, then the longest prefix of
\* digits; NaN when there is none
ParseInt(s) ==
    LET r == SkipSpaces(s)
    IN IF r # <<>> /\ IsDigit(Head(r)) THEN Num(DigitsValue(r, 0)) ELSE NaN

RECURSIVE Reverse(_)
Reverse(s) == IF s = <<>> THEN <<>> ELSE Reverse(Tail(s)) \o <<Head(s)>>

\* String.prototype.trim
Trim(s) == Reverse(SkipSpaces(Reverse(SkipSpaces(s))))

RECURSIVE SplitFrom(_, _, _)
\* the pieces of s between the separators, cur being the piece being read
SplitFrom(s, sep, cur) ==
    IF s = <<>> THEN <<cur>>
    ELSE IF Head(s) = sep THEN <<cur>> \o SplitFrom(Tail(s), sep, <<>>)
    ELSE SplitFrom(Tail(s), sep, cur \o <<Head(s)>>)

\* String.prototype.split(sep)
Split(s, sep) == SplitFrom(s, sep, <<>>)

\* a slice that keeps the whole array
Slice0All(s, n) == s

\* Array.prototype.slice(0, n)
Slice0(s, n) == SubSeq(s, 1, IF Len(s) < n THEN Len(s) ELSE n)

----------------------------------------------------------------------------
(* Errors: new Error(message), message a string *)

Error(name, message) == [name |-> name, message |-> message]

QRequired == Error("Error", <<"Search query (q) is required">>)
KeyRequired ==
    Error("Error", <<"RapidAPI key is required. Set RAPIDAPI_KEY in .env file">>)
\* `API key ${i + 1} returned 403 Forbidden`, i the 0-based loop index
Forbidden(i) ==
    Error("Error", <<"API key ">> \o NatStr(i + 1) \o <<" returned 403 Forbidden">>)
\* `HTTP error! status: ${response.status}, body: ${errorText}`
HttpError(status, body) ==
    Error("Error", <<"HTTP error! status: ">> \o ToStr(status) \o <<", body: ">> \o body)
\* `API Error: ${data.error}`
ApiError(e) == Error("Error", <<"API Error: ">> \o ToStr(e))
\* reading a property of null: item.item with item null, lastError.message
\* with lastError null
NullRead(prop) ==
    Error("TypeError", <<"Cannot read properties of null (reading '", prop, "')">>)
\* a last line that rethrows the last error as it is
ExhaustedRaw(n, lastError) == lastError

\* `Failed to search AliExpress with all ${apiKeys.length} API key(s). Last
\* error: ${lastError.message}`
Exhausted(n, lastError) ==
    IF lastError = Null THEN NullRead("message")
    ELSE Error("Error", <<"Failed to search AliExpress with all ">> \o NatStr(n)
                        \o <<" API key(s). Last error: ">> \o lastError.message)

----------------------------------------------------------------------------
(* The cache file and its key *)

\* `${q}|${page}|${sort}`
getCacheKey(q, page, sort) ==
    ToStr(q) \o <<"|">> \o ToStr(page) \o <<"|">> \o ToStr(sort)

\* a stringify that writes null for undefined
JSONStringifyItemNull(it) ==
    [f \in DOMAIN it |-> IF it[f] = Undefined THEN Null ELSE it[f]]

\* JSON.stringify of a result item: a property whose value is undefined is
\* left out
JSONStringifyItem(it) ==
    [f \in DOMAIN it |-> IF it[f] = Undefined THEN [t |-> "absent"] ELSE it[f]]

\* JSON.parse of a result item: reading a property that is absent gives
\* undefined
JSONParseItem(j) ==
    [f \in DOMAIN j |-> IF j[f] = [t |-> "absent"] THEN Undefined ELSE j[f]]

\* JSON.stringify of a result list
JSONStringify(results) == [n \in 1..Len(results) |-> JSONStringifyItem(results[n])]
\* JSON.parse of a result list
JSONParse(text) == [n \in 1..Len(text) |-> JSONParseItem(text[n])]

\* the cache object with every result list stringified, and back
StringifyCache(c) == [k \in DOMAIN c |-> JSONStringify(c[k])]
ParseCache(text) == [k \in DOMAIN text |-> JSONParse(text[k])]

EmptyCache == <<>>
NoFile == [exists |-> FALSE, text |-> <<>>]

\* a loadCache without its catch: what the file holds, whatever the read did
loadCacheUnguarded(file, readFails) == ParseCache(file.text)

\* readFileSync and JSON.parse run only if existsSync says the file is
\* there: only then can the read throw
ReadOutcomes(file) == IF file.exists THEN BOOLEAN ELSE {FALSE}

\* loadCache(): {} when the file does not exist or reading or parsing it
\* throws (readFails), else the parsed file
loadCache(file, readFails) ==
    IF file.exists /\ ~readFails THEN ParseCache(file.text) ELSE EmptyCache

\* a saveCache that keeps a file that is already there
saveCacheOnce(file, c, writeFails) ==
    IF writeFails \/ file.exists THEN file
    ELSE [exists |-> TRUE, text |-> StringifyCache(c)]

\* saveCache(cache): the file is overwritten with the whole object; a
\* failing write is logged and leaves the file as it was
saveCache(file, c, writeFails) ==
    IF writeFails THEN file ELSE [exists |-> TRUE, text |-> StringifyCache(c)]

\* cache[cacheKey] = results
CachePut(c, k, results) ==
    [x \in DOMAIN c \cup {k} |-> IF x = k THEN results ELSE c[x]]

\* a lookup that takes a cached empty list for a miss
CacheHasNonEmpty(c, k) == k \in DOMAIN c /\ c[k] # <<>>

\* if (cache[cacheKey]): an own property whose value is truthy (a result
\* list is an array, and every array is truthy)
CacheHas(c, k) == k \in DOMAIN c

----------------------------------------------------------------------------
(* The result projection *)

\* an upstream item {item: {title, sku: {def: {promotionPrice}}, image,
\* itemUrl}}, flattened to the four values the projection reads
UpItem(title, price, image, itemUrl) ==
    [t |-> "object", title |-> title, price |-> price, image |-> image,
     itemUrl |-> itemUrl]

\* v ? `https:${v}` : v
WithScheme(v) == IF Truthy(v) THEN Str(<<"https:">> \o ToStr(v)) ELSE v

\* the arrow function of the map
ProjectItem(item) ==
    [title |-> item.title, price |-> item.price,
     image |-> WithScheme(item.image), url |-> WithScheme(item.itemUrl)]

\* data.result?.resultList?.slice(0, 3).map(...) || []: the list, or the
\* TypeError of reading item.item of a null entry
ProjectResults(resultList) ==
    IF resultList.t # "array" THEN [threw |-> FALSE, results |-> <<>>]
    ELSE LET first == Slice0(resultList.a, 3)
         IN IF \E k \in 1..Len(first) : first[k] = Null
            THEN [threw |-> TRUE, error |-> NullRead("item")]
            ELSE [threw |-> FALSE,
                  results |-> [n \in 1..Len(first) |-> ProjectItem(first[n])]]

----------------------------------------------------------------------------
(* The optimizer and the credential list *)

\* what a non-string, non-nullish content throws at .trim()
NotAFunction == Error("TypeError", <<"data.choices?.[0]?.message?.content?.trim is not a function">>)
\* `HackClub AI request failed: ${response.status}`
AIFailed(status) == Error("Error", <<"HackClub AI request failed: ">> \o ToStr(status))
\* what fetch rejects with on a transport failure
FetchFailed == Error("TypeError", <<"fetch failed">>)
\* what response.json() rejects with on a body that is not JSON
BadJson == Error("SyntaxError", <<"Unexpected token < in JSON">>)

\* the try block of optimizeSearchQuery.  An AI response is [kind, content]:
\* kind "neterr" (fetch rejects), "status" (not ok), "badjson" (json()
\* rejects) or "ok" with content = data.choices?.[0]?.message?.content
\* (undefined when any link of the chain is missing)
OptimizeTry(query, resp) ==
    CASE resp.kind = "neterr" -> [threw |-> TRUE, error |-> FetchFailed]
      [] resp.kind = "status" -> [threw |-> TRUE, error |-> AIFailed(Num(500))]
      [] resp.kind = "badjson" -> [threw |-> TRUE, error |-> BadJson]
      [] OTHER ->
            IF resp.content.t \in {"undefined", "null"}
            THEN [threw |-> FALSE, value |-> query]
            ELSE IF resp.content.t # "string"
            THEN [threw |-> TRUE, error |-> NotAFunction]
            ELSE LET optimized == Str(Trim(resp.content.s))
                 IN [threw |-> FALSE,
                     value |-> IF Truthy(optimized) THEN optimized ELSE query]

\* an optimizer without its catch
OptimizeResultRethrow(query, resp) == OptimizeTry(query, resp)

\* optimizeSearchQuery once its fetch has settled: the catch gives query
OptimizeResult(query, resp) ==
    LET t == OptimizeTry(query, resp)
    IN IF t.threw THEN [threw |-> FALSE, value |-> query] ELSE t

\* the apiKeys of searchAliExpress
NormalizeKeys(rapidApiKey) ==
    IF rapidApiKey.t = "array" THEN rapidApiKey.a
    ELSE IF rapidApiKey.t = "string"
         THEN LET parts == Split(rapidApiKey.s, ",")
              IN [n \in 1..Len(parts) |-> Trim(parts[n])]
    ELSE <<rapidApiKey>>

\* the destructuring defaults of searchAliExpress: a default applies to
\* undefined only
Default(v, d) == IF v = Undefined THEN d ELSE v

----------------------------------------------------------------------------
(* The /search handler's reading of the query string *)

\* a reading that groups the conditional first:
\* (page ? parseInt(page) : 1) || 'default'
HandlerPageGrouped(page) ==
    Or(IF Truthy(page) THEN ParseInt(page.s) ELSE Num(1), Str(<<"default">>))

\* page ? parseInt(page) : 1 || 'default', that is
\* page ? parseInt(page) : (1 || 'default')
HandlerPage(page) ==
    IF Truthy(page) THEN ParseInt(page.s) ELSE Or(Num(1), Str(<<"default">>))

\* a handler that passes sort as it came
HandlerSortAsIs(sort) == sort

\* sort || 'default'
HandlerSort(sort) == Or(sort, Str(<<"default">>))

\* the options object the handler passes to searchAliExpress
HandlerOptions(query) ==
    [q |-> query.q, page |-> HandlerPage(query.page),
     sort |-> HandlerSort(query.sort), rapidApiKey |-> Undefined]

----------------------------------------------------------------------------
(* The inputs the model draws from *)

Req == 1..MaxReq

\* process.env.HACKCLUB_API_KEY and process.env.RAPIDAPI_KEY: unset, or set
\* (RAPIDAPI_KEY to the two keys "p, q")
HackclubKeys == {Undefined, Str(<<"hc">>)}
RapidKeys == {Undefined, Str(<<"p", ",", " ", "q">>)}

\* req.query of a GET /search: without q, with q alone, with a page, with
\* a sort, and with a q and a sort that hold the separator of the cache key
Query(q, page, sort) == [q |-> q, page |-> page, sort |-> sort]
HandlerQueries ==
    {Query(Undefined, Undefined, Undefined),
     Query(Str(<<>>), Undefined, Undefined),
     Query(Str(<<"a">>), Undefined, Undefined),
     Query(Str(<<"a">>), Str(<<"2">>), Undefined),
     Query(Str(<<"a", "|", "1">>), Undefined, Undefined),
     Query(Str(<<"a">>), Undefined, Str(<<"1", "|", "default">>))}

\* the options of a direct call of searchAliExpress
DirectOptions ==
    [q : {Undefined, Str(<<>>), Str(<<"a">>)},
     page : {Undefined},
     sort : {Undefined},
     rapidApiKey : {Undefined, Arr(<<>>), Arr(<<<<"k1">>, <<"k2">>, <<"k3">>>>)}]

\* what the AI endpoint answers
AIResponses ==
    [kind : {"neterr", "status", "badjson"}, content : {Undefined}]
    \cup [kind : {"ok"},
          content : {Undefined, Null, Str(<<>>), Str(<<" ">>),
                     Str(<<" ", "b", " ">>)}]

Item1 == UpItem(Str(<<"t1">>), Str(<<"9.99">>), Str(<<"//", "img/1">>),
                Str(<<"//", "item/1">>))
Item2 == UpItem(Undefined, Undefined, Undefined, Undefined)
Item3 == UpItem(Str(<<"t3">>), Null, Str(<<"https:", "//", "img/3">>), Null)
Item4 == UpItem(Str(<<"t4">>), Str(<<"1">>), Str(<<>>), Str(<<"//", "item/4">>))

\* data.result?.resultList of a search response with a JSON body
UpLists ==
    {Undefined, Arr(<<Item1, Item2, Item3, Item4>>), Arr(<<Item1, Null>>)}

\* what the search endpoint answers: 403, another status that is not ok,
\* a transport error, a body with an error field, or a body with (or
\* without) a result list
SearchResponses ==
    [kind : {"403", "status", "neterr", "errfield"},
     resultList : {Undefined}]
    \cup [kind : {"ok"}, resultList : UpLists]

----------------------------------------------------------------------------
(* State *)

VARIABLES
    HACKCLUB_API_KEY,  \* process.env.HACKCLUB_API_KEY
    RAPIDAPI_KEY,      \* process.env.RAPIDAPI_KEY
    file,              \* api-cache.json
    pc,                \* where each request is: idle, optimizing (the AI
                       \* fetch in flight), optimized (optimizeSearchQuery
                       \* settled), searching (a search fetch in flight), done
    reqQuery,          \* req.query of a request to /search
    via,               \* how searchAliExpress was entered: http, direct
    options,           \* q, page, sort, rapidApiKey after the defaults
    cacheKey,          \* const cacheKey
    cache,             \* const cache, the request's own copy
    optimizedQuery,    \* const optimizedQuery
    apiKeys,           \* let apiKeys
    i,                 \* the loop index
    lastError,         \* let lastError
    ret,               \* what searchAliExpress returned or threw
    res,               \* the HTTP response of the handler
    aiCalls,           \* history: fetches of the AI endpoint issued
    searchCalls,       \* history: fetches of the search endpoint issued
    cacheReads,        \* history: calls of loadCache
    readFailed,        \* history: the read of loadCache threw
    only403,           \* history: every search answer so far was a 403
    saved,             \* history: none, ok or failed, the request's saveCache
    answer,            \* history: the last answer of the search endpoint
    fn,                \* the function applied on its own: none, or its name
    arg,               \* its argument
    out                \* its result, once applied

vars == <<HACKCLUB_API_KEY, RAPIDAPI_KEY, file, pc, reqQuery, via, options, cacheKey,
          cache, optimizedQuery, apiKeys, i, lastError, ret, res, aiCalls,
          searchCalls, cacheReads, readFailed, only403, saved, answer, fn, arg, out>>

\* what no step of a request changes
unit == <<fn, arg, out>>
env == <<HACKCLUB_API_KEY, RAPIDAPI_KEY>>

NoOptions == [q |-> Undefined, page |-> Undefined, sort |-> Undefined,
              rapidApiKey |-> Undefined]
NoQuery == [q |-> Undefined, page |-> Undefined, sort |-> Undefined]
NoRet == [kind |-> "none"]
NoRes == [status |-> 0]
NoAnswer == [kind |-> "none", resultList |-> Undefined]

InitWith(hk, rk) ==
    /\ HACKCLUB_API_KEY = hk
    /\ RAPIDAPI_KEY = rk
    /\ file = NoFile
    /\ pc = [r \in Req |-> "idle"]
    /\ reqQuery = [r \in Req |-> NoQuery]
    /\ via = [r \in Req |-> "none"]
    /\ options = [r \in Req |-> NoOptions]
    /\ cacheKey = [r \in Req |-> <<>>]
    /\ cache = [r \in Req |-> EmptyCache]
    /\ optimizedQuery = [r \in Req |-> Undefined]
    /\ apiKeys = [r \in Req |-> <<>>]
    /\ i = [r \in Req |-> 0]
    /\ lastError = [r \in Req |-> Null]
    /\ ret = [r \in Req |-> NoRet]
    /\ res = [r \in Req |-> NoRes]
    /\ aiCalls = [r \in Req |-> 0]
    /\ searchCalls = [r \in Req |-> <<>>]
    /\ cacheReads = [r \in Req |-> 0]
    /\ readFailed = [r \in Req |-> FALSE]
    /\ only403 = [r \in Req |-> TRUE]
    /\ saved = [r \in Req |-> "none"]
    /\ answer = [r \in Req |-> NoAnswer]

NoOut == [applied |-> FALSE]

Init ==
    /\ \E hk \in HackclubKeys, rk \in RapidKeys : InitWith(hk, rk)
    /\ fn = "none"
    /\ arg = <<>>
    /\ out = NoOut

----------------------------------------------------------------------------
(* How a run ends *)

\* res.json(results) after the await of searchAliExpress
OkResponse(results) == [status |-> 200, body |-> JSONStringify(results)]
\* res.status(500).json({ error: error.message })
ErrorResponse(e) == [status |-> 500, error |-> e.message]
\* res.status(400).json({ error: 'Search query parameter "q" is required' })
BadRequest ==
    [status |-> 400, error |-> <<"Search query parameter \"q\" is required">>]

\* searchAliExpress returns results
Return(r, v, results) ==
    /\ pc' = [pc EXCEPT ![r] = "done"]
    /\ ret' = [ret EXCEPT ![r] = [kind |-> "return", value |-> results]]
    /\ res' = [res EXCEPT ![r] = IF v = "http" THEN OkResponse(results) ELSE NoRes]

\* searchAliExpress throws e
Throw(r, v, e) ==
    /\ pc' = [pc EXCEPT ![r] = "done"]
    /\ ret' = [ret EXCEPT ![r] = [kind |-> "throw", error |-> e]]
    /\ res' = [res EXCEPT ![r] = IF v = "http" THEN ErrorResponse(e) ELSE NoRes]

\* a loop that sends every request with the first key
SearchRequestFirstKey(keys, idx, query, o) ==
    [key |-> keys[1], q |-> ToStr(query), page |-> ToStr(o.page),
     sort |-> ToStr(o.sort)]

\* the search request of the loop body: fetch(url, {headers: {'x-rapidapi-key':
\* currentKey}}), the url carrying optimizedQuery, page.toString() and sort
SearchRequest(keys, idx, query, o) ==
    [key |-> keys[idx + 1], q |-> ToStr(query), page |-> ToStr(o.page),
     sort |-> ToStr(o.sort)]

----------------------------------------------------------------------------
(* searchAliExpress, from one await to the next *)

\* a check that takes only an absent q for missing
QMissingUndefinedOnly(q) == q = Undefined

\* if (!q), in the handler and in searchAliExpress
QMissing(q) == ~Truthy(q)

\* an optimizer that fetches whatever the configuration
OptimizerAlways(hackclubApiKey) == TRUE

\* if (!hackclubApiKey) return query, negated: the AI endpoint is fetched
OptimizerConfigured(hackclubApiKey) == Truthy(hackclubApiKey)

\* the requests are interchangeable: they arrive in the order of their index
MayArrive(r) == pc[r] = "idle" /\ \A s \in Req : s < r => pc[s] # "idle"

\* searchAliExpress(o) up to its first await: the defaults, the check of
\* q, the cache lookup, and the start of optimizeSearchQuery
Enter(r, o, v) ==
    LET opt == [q |-> o.q,
                page |-> Default(o.page, Num(1)),
                sort |-> Default(o.sort, Str(<<"default">>)),
                rapidApiKey |-> Default(o.rapidApiKey, RAPIDAPI_KEY)]
        k == getCacheKey(opt.q, opt.page, opt.sort)
    IN /\ via' = [via EXCEPT ![r] = v]
       /\ options' = [options EXCEPT ![r] = opt]
       /\ IF QMissing(opt.q)
          THEN /\ Throw(r, v, QRequired)
               /\ UNCHANGED <<cacheKey, cache, cacheReads, readFailed, optimizedQuery,
                               aiCalls>>
          ELSE \E readFails \in ReadOutcomes(file) :
                 LET c == loadCache(file, readFails)
                 IN /\ cacheKey' = [cacheKey EXCEPT ![r] = k]
                    /\ cache' = [cache EXCEPT ![r] = c]
                    /\ cacheReads' = [cacheReads EXCEPT ![r] = @ + 1]
                    /\ readFailed' = [readFailed EXCEPT ![r] = readFails]
                    /\ IF CacheHas(c, k)
                       THEN /\ Return(r, v, c[k])
                            /\ UNCHANGED <<optimizedQuery, aiCalls>>
                       ELSE IF OptimizerConfigured(HACKCLUB_API_KEY)
                       THEN /\ pc' = [pc EXCEPT ![r] = "optimizing"]
                            /\ aiCalls' = [aiCalls EXCEPT ![r] = @ + 1]
                            /\ UNCHANGED <<optimizedQuery, ret, res>>
                       ELSE /\ pc' = [pc EXCEPT ![r] = "optimized"]
                            /\ optimizedQuery' = [optimizedQuery EXCEPT ![r] = opt.q]
                            /\ UNCHANGED <<aiCalls, ret, res>>
       /\ UNCHANGED <<env, unit, file, apiKeys, i, lastError, searchCalls, only403,
                       saved, answer>>

\* GET /search: 400 without q, else searchAliExpress with the handler's
\* options
Search(r, rq) ==
    /\ MayArrive(r)
    /\ reqQuery' = [reqQuery EXCEPT ![r] = rq]
    /\ IF QMissing(rq.q)
       THEN /\ pc' = [pc EXCEPT ![r] = "done"]
            /\ via' = [via EXCEPT ![r] = "http"]
            /\ res' = [res EXCEPT ![r] = BadRequest]
            /\ UNCHANGED <<env, unit, file, options, cacheKey, cache, optimizedQuery,
                           apiKeys, i, lastError, ret, aiCalls, searchCalls,
                           cacheReads, readFailed, only403, saved, answer>>
       ELSE Enter(r, HandlerOptions(rq), "http")

\* searchAliExpress(o) called by another module
Call(r, o) ==
    /\ MayArrive(r)
    /\ UNCHANGED reqQuery
    /\ Enter(r, o, "direct")

\* the AI fetch settles: optimizeSearchQuery returns (were it to throw,
\* searchAliExpress would throw the same)
OptimizeResponse(r, resp) ==
    /\ pc[r] = "optimizing"
    /\ LET o == OptimizeResult(options[r].q, resp)
       IN IF o.threw
          THEN /\ Throw(r, via[r], o.error)
               /\ UNCHANGED optimizedQuery
          ELSE /\ pc' = [pc EXCEPT ![r] = "optimized"]
               /\ optimizedQuery' = [optimizedQuery EXCEPT ![r] = o.value]
               /\ UNCHANGED <<ret, res>>
    /\ UNCHANGED <<env, unit, file, reqQuery, via, options, cacheKey, cache, apiKeys,
                   i, lastError, aiCalls, searchCalls, cacheReads, readFailed, only403,
                   saved, answer>>

\* after the await of optimizeSearchQuery: the check of rapidApiKey, the
\* candidate list, and the first turn of the loop up to its fetch
AfterOptimize(r) ==
    /\ pc[r] = "optimized"
    /\ IF ~Truthy(options[r].rapidApiKey)
       THEN /\ Throw(r, via[r], KeyRequired)
            /\ UNCHANGED <<apiKeys, searchCalls>>
       ELSE LET keys == NormalizeKeys(options[r].rapidApiKey)
            IN /\ apiKeys' = [apiKeys EXCEPT ![r] = keys]
               /\ IF 0 < Len(keys)
                  THEN /\ pc' = [pc EXCEPT ![r] = "searching"]
                       /\ searchCalls' = [searchCalls EXCEPT ![r] =
                              <<SearchRequest(keys, 0, optimizedQuery[r], options[r])>>]
                       /\ UNCHANGED <<ret, res>>
                  ELSE /\ Throw(r, via[r], Exhausted(Len(keys), Null))
                       /\ UNCHANGED searchCalls
    /\ UNCHANGED <<env, unit, file, reqQuery, via, options, cacheKey, cache,
                   optimizedQuery, i, lastError, aiCalls, cacheReads, readFailed, only403,
                   saved, answer>>

\* the body of the try once the fetch has settled: the results, or the
\* error recorded in lastError (the 403 branch, or what the catch receives)
Attempt(resp, idx) ==
    CASE resp.kind = "403" -> [ok |-> FALSE, error |-> Forbidden(idx)]
      [] resp.kind = "status" ->
            [ok |-> FALSE, error |-> HttpError(Num(500), <<"Internal Server Error">>)]
      [] resp.kind = "neterr" -> [ok |-> FALSE, error |-> FetchFailed]
      [] resp.kind = "errfield" -> [ok |-> FALSE, error |-> ApiError(Str(<<"quota">>))]
      [] OTHER -> LET p == ProjectResults(resp.resultList)
                  IN IF p.threw THEN [ok |-> FALSE, error |-> p.error]
                     ELSE [ok |-> TRUE, results |-> p.results]

\* a write under a key made from the optimized query
SavedCacheOptimizedKey(r, results) ==
    CachePut(cache[r],
             getCacheKey(optimizedQuery[r], options[r].page, options[r].sort),
             results)

\* cache[cacheKey] = results, the object handed to saveCache
SavedCache(r, results) == CachePut(cache[r], cacheKey[r], results)

\* a loop that gives up after its first turn
MoreKeysNever(keys, idx) == FALSE

\* for (...; i < apiKeys.length; i++): another turn follows turn idx
MoreKeys(keys, idx) == idx + 1 < Len(keys)

\* a search fetch settles: on success the results are cached, saved and
\* returned; else the error is recorded and the next key is tried, or
\* the loop ends and the last line throws
SearchResponse(r, resp) ==
    /\ pc[r] = "searching"
    /\ answer' = [answer EXCEPT ![r] = resp]
    /\ LET a == Attempt(resp, i[r])
       IN IF a.ok
          THEN \E writeFails \in BOOLEAN :
                 LET c == SavedCache(r, a.results)
                 IN /\ cache' = [cache EXCEPT ![r] = c]
                    /\ file' = saveCache(file, c, writeFails)
                    /\ saved' = [saved EXCEPT ![r] = IF writeFails THEN "failed" ELSE "ok"]
                    /\ Return(r, via[r], a.results)
                    /\ UNCHANGED <<i, lastError, searchCalls, only403>>
          ELSE /\ lastError' = [lastError EXCEPT ![r] = a.error]
               /\ only403' = [only403 EXCEPT ![r] = @ /\ resp.kind = "403"]
               /\ i' = [i EXCEPT ![r] = @ + 1]
               /\ IF MoreKeys(apiKeys[r], i[r])
                  THEN /\ searchCalls' = [searchCalls EXCEPT ![r] = Append(@,
                              SearchRequest(apiKeys[r], i[r] + 1, optimizedQuery[r], options[r]))]
                       /\ UNCHANGED <<pc, ret, res>>
                  ELSE /\ Throw(r, via[r], Exhausted(Len(apiKeys[r]), a.error))
                       /\ UNCHANGED searchCalls
               /\ UNCHANGED <<file, cache, saved>>
    /\ UNCHANGED <<env, unit, reqQuery, via, options, cacheKey, optimizedQuery, apiKeys,
                   aiCalls, cacheReads, readFailed>>

----------------------------------------------------------------------------
(* The server: requests to /search and direct calls, interleaved at the awaits *)

Next ==
    \E r \in Req :
        \/ \E rq \in HandlerQueries : Search(r, rq)
        \/ \E o \in DirectOptions : Call(r, o)
        \/ \E resp \in AIResponses : OptimizeResponse(r, resp)
        \/ AfterOptimize(r)
        \/ \E resp \in SearchResponses : SearchResponse(r, resp)

Spec == Init /\ [][Next]_vars

----------------------------------------------------------------------------
(* The pure functions applied on their own, to every input of a bounded set *)

RECURSIVE SeqsUpTo(_, _)
\* the sequences over S of length at most n
SeqsUpTo(S, n) ==
    IF n = 0 THEN {<<>>}
    ELSE LET shorter == SeqsUpTo(S, n - 1)
         IN shorter \cup {Append(q, x) : q \in {t \in shorter : Len(t) = n - 1}, x \in S}

\* the values an upstream image or itemUrl takes: absent, null, empty,
\* scheme-relative, and with a scheme
UrlValues ==
    {Undefined, Null, Str(<<>>), Str(<<"//", "host/x">>),
     Str(<<"https:", "//", "host/x">>), Str(<<"http:", "//", "host/x">>)}

\* upstream items with every pair of url values
UrlItems ==
    {UpItem(t, Str(<<"1">>), im, u) :
        t \in {Undefined, Str(<<"t">>)}, im \in UrlValues, u \in UrlValues}

\* the result lists ProjectResults is applied to: absent, null, every
\* list of at most MaxItems of the four items and null, and every single item
ProjectArgs ==
    {Undefined, Null}
    \cup {Arr(l) : l \in SeqsUpTo({Item1, Item2, Item3, Item4, Null}, MaxItems)}
    \cup {Arr(<<it>>) : it \in UrlItems}

\* the (query, response) pairs optimizeSearchQuery is applied to
OptimizeArgs ==
    [query : {Str(<<"a">>), Str(<<"a", " ", "b">>)},
     resp : [kind : {"neterr", "status", "badjson"}, content : {Undefined}]
            \cup [kind : {"ok"},
                  content : {Undefined, Null, Num(7), Str(<<>>), Str(<<" ">>),
                             Str(<<" ", " ">>), Str(<<" ", "b", " ">>),
                             Str(<<"c">>), Str(<<"b", " ", "c", " ">>)}]]

\* the req.query objects the handler's reading is applied to: page absent,
\* empty, "0", "1", "2", "x" (not a number) and " 3"; sort absent, empty
\* and "orders"
HandlerArgs ==
    [q : {Str(<<"a">>)},
     page : {Undefined, Str(<<>>), Str(<<"0">>), Str(<<"1">>), Str(<<"2">>),
             Str(<<"x">>), Str(<<" ", "3">>)},
     sort : {Undefined, Str(<<>>), Str(<<"orders">>)}]

FnInit ==
    /\ InitWith(Undefined, Undefined)
    /\ out = NoOut
    /\ \/ fn = "ProjectResults" /\ arg \in ProjectArgs
       \/ fn = "optimizeSearchQuery" /\ arg \in OptimizeArgs
       \/ fn = "HandlerOptions" /\ arg \in HandlerArgs

Applied(result) == [applied |-> TRUE, result |-> result]

ApplyProjectResults ==
    /\ fn = "ProjectResults"
    /\ ~out.applied
    /\ out' = Applied(ProjectResults(arg))
    /\ UNCHANGED <<env, file, pc, reqQuery, via, options, cacheKey, cache,
                   optimizedQuery, apiKeys, i, lastError, ret, res, aiCalls,
                   searchCalls, cacheReads, readFailed, only403, saved, answer, fn, arg>>

ApplyOptimize ==
    /\ fn = "optimizeSearchQuery"
    /\ ~out.applied
    /\ out' = Applied(OptimizeResult(arg.query, arg.resp))
    /\ UNCHANGED <<env, file, pc, reqQuery, via, options, cacheKey, cache,
                   optimizedQuery, apiKeys, i, lastError, ret, res, aiCalls,
                   searchCalls, cacheReads, readFailed, only403, saved, answer, fn, arg>>

ApplyHandlerOptions ==
    /\ fn = "HandlerOptions"
    /\ ~out.applied
    /\ out' = Applied(HandlerOptions(arg))
    /\ UNCHANGED <<env, file, pc, reqQuery, via, options, cacheKey, cache,
                   optimizedQuery, apiKeys, i, lastError, ret, res, aiCalls,
                   searchCalls, cacheReads, readFailed, only403, saved, answer, fn, arg>>

FnNext == ApplyProjectResults \/ ApplyOptimize \/ ApplyHandlerOptions

FnSpec == FnInit /\ [][FnNext]_vars

----------------------------------------------------------------------------
(* Properties *)

\* request r enters the server in this step
Arrives(r) == pc[r] = "idle" /\ pc'[r] # "idle"
\* two option objects with the same (q, page, sort)
SameTriple(o1, o2) == o1.q = o2.q /\ o1.page = o2.page /\ o1.sort = o2.sort
\* searchAliExpress has returned a result list to request r
Succeeded(r) == pc[r] = "done" /\ ret[r].kind = "return"
\* request r got its result list from the search endpoint
Searched(r) == Succeeded(r) /\ saved[r] # "none"
\* request r passed the check of q and looked the cache up
LookedUp(r) == cacheReads[r] = 1

C2_FallbackAfter403 ==
    \A r \in Req :
        (Searched(r) /\ only403[r])
        => LET K == i[r]
               single == Attempt(answer[r], 0)
           IN /\ K < Len(apiKeys[r])
              /\ Len(searchCalls[r]) = K + 1
              /\ \A j \in 1..(K + 1) : searchCalls[r][j].key = apiKeys[r][j]
              /\ single.ok
              /\ ret[r] = [kind |-> "return", value |-> single.results]

\* two 403 answers, then the third of three credentials succeeds with items
C2_Witness ==
    \E r \in Req :
        /\ Searched(r) /\ only403[r] /\ i[r] = 2 /\ Len(apiKeys[r]) = 3
        /\ ret[r].value # <<>>

\* C3 as stated: whenever a run that passed the configuration check ends
\* with every candidate failed, it throws one Error whose message names the
\* number of candidates and the message of the last recorded error
C3_ExhaustionNamesCountAndCause ==
    \A r \in Req :
        (/\ pc[r] = "done" /\ LookedUp(r) /\ ret[r].kind = "throw"
         /\ Truthy(options[r].rapidApiKey))
        => LET n == Len(NormalizeKeys(options[r].rapidApiKey))
           IN /\ lastError[r] # Null
              /\ ret[r].error =
                    Error("Error",
                          <<"Failed to search AliExpress with all ">> \o NatStr(n)
                          \o <<" API key(s). Last error: ">>
                          \o lastError[r].message)

\* C4: the key looked up and the key written are the key of the raw
\* (q, page, sort), so requests with the same raw triple use one entry
\* whatever their optimized queries
C4_KeyFromRawTriple ==
    /\ \A r \in Req :
          LookedUp(r)
          => /\ cacheKey[r] = getCacheKey(options[r].q, options[r].page, options[r].sort)
             /\ Searched(r)
                => /\ cacheKey[r] \in DOMAIN cache[r]
                   /\ cache[r][cacheKey[r]] = ret[r].value
    /\ \A r1, r2 \in Req :
          (LookedUp(r1) /\ LookedUp(r2) /\ SameTriple(options[r1], options[r2]))
          => cacheKey[r1] = cacheKey[r2]

\* two requests with the same raw triple and different optimized queries
\* that both wrote the cache
C4_Witness ==
    \E r1, r2 \in Req :
        /\ Searched(r1) /\ Searched(r2)
        /\ SameTriple(options[r1], options[r2])
        /\ optimizedQuery[r1] # optimizedQuery[r2]
        /\ cacheKey[r1] = cacheKey[r2]

\* string s begins with the tokens p
StartsWith(s, p) == Len(s) >= Len(p) /\ SubSeq(s, 1, Len(p)) = p
\* string s begins with a scheme
HasScheme(s) == s # <<>> /\ Head(s) \in {"https:", "http:"}
\* ProjectResults was applied to a list and returned
Projected == fn = "ProjectResults" /\ out.applied /\ ~out.result.threw

\* C5 as stated: in every returned item, an image or url that begins with
\* // upstream begins with https:// , one that has a scheme upstream is
\* unchanged, and one that is absent upstream is undefined
C5_SchemeNormalised ==
    (Projected /\ arg.t = "array")
    => \A k \in 1..Len(out.result.results) :
         \A pair \in {<<arg.a[k].image, out.result.results[k].image>>,
                      <<arg.a[k].itemUrl, out.result.results[k].url>>} :
            LET up == pair[1]
                got == pair[2]
            IN /\ (up.t = "string" /\ StartsWith(up.s, <<"//">>))
                  => (got.t = "string" /\ StartsWith(got.s, <<"https:", "//">>))
               /\ (up.t = "string" /\ HasScheme(up.s)) => got = up
               /\ up = Undefined => got = Undefined

\* C6: a returned result list has at most 3 items, the projections of the
\* first min(3, n) upstream entries in upstream order; an absent upstream
\* list gives the empty list
C6_FirstThreeInOrder ==
    Projected
    => LET got == out.result.results
       IN IF arg.t # "array" THEN got = <<>>
          ELSE LET n == Len(arg.a)
                   m == IF n < 3 THEN n ELSE 3
               IN /\ Len(got) = m
                  /\ Len(got) <= 3
                  /\ \A k \in 1..m : got[k] = ProjectItem(arg.a[k])

\* an upstream list of more than 3 items, projected to its first 3
C6_Witness ==
    /\ Projected /\ arg.t = "array"
    /\ Len(arg.a) > 3
    /\ Len(out.result.results) = 3
    /\ out.result.results[1] # out.result.results[2]

\* request r read no cache and issued no outbound call
NoIO(r) == cacheReads[r] = 0 /\ aiCalls[r] = 0 /\ searchCalls[r] = <<>>

\* C7: a request without q (absent or empty) is rejected, with status 400 by
\* the handler and with 'Search query (q) is required' by searchAliExpress,
\* and has read no cache and issued no AI or search call
C7_MissingQRejectedFirst ==
    \A r \in Req :
        /\ (via[r] = "http" /\ ~Truthy(reqQuery[r].q))
           => /\ pc[r] = "done"
              /\ res[r].status = 400
              /\ ret[r] = NoRet
              /\ NoIO(r)
        /\ (via[r] = "direct" /\ ~Truthy(options[r].q))
           => /\ pc[r] = "done"
              /\ ret[r].kind = "throw"
              /\ ret[r].error.message = <<"Search query (q) is required">>
              /\ NoIO(r)

\* a GET /search with an empty q answered 400 and a direct call without q
\* that threw
C7_Witness ==
    \E r1, r2 \in Req :
        /\ via[r1] = "http" /\ reqQuery[r1].q = Str(<<>>) /\ res[r1].status = 400
        /\ via[r2] = "direct" /\ ~Truthy(options[r2].q) /\ ret[r2].kind = "throw"

\* C8: without HACKCLUB_API_KEY no request fetches the AI endpoint, and
\* every search request carries the input query
C8_NoKeyNoAICall ==
    ~Truthy(HACKCLUB_API_KEY)
    => \A r \in Req :
         /\ aiCalls[r] = 0
         /\ \A j \in 1..Len(searchCalls[r]) : searchCalls[r][j].q = ToStr(options[r].q)

\* without HACKCLUB_API_KEY, a request has issued a search request
C8_Witness ==
    /\ ~Truthy(HACKCLUB_API_KEY)
    /\ \E r \in Req : Len(searchCalls[r]) >= 1 /\ searchCalls[r][1].q = <<"a">>

\* C9: whatever the AI call gives, optimizeSearchQuery does not throw, and
\* it returns the query unless the content is a string that is not empty
\* once trimmed, which it then returns trimmed
C9_OptimizerFallsBack ==
    (fn = "optimizeSearchQuery" /\ out.applied)
    => LET resp == arg.resp
           got == out.result
       IN /\ ~got.threw
          /\ IF resp.kind = "ok" /\ resp.content.t = "string"
                /\ Trim(resp.content.s) # <<>>
             THEN got.value = Str(Trim(resp.content.s))
             ELSE got.value = arg.query

\* a status that is not ok, absorbed: the query is returned
C9_Witness ==
    /\ fn = "optimizeSearchQuery" /\ out.applied
    /\ arg.resp.kind = "status"
    /\ ~out.result.threw /\ out.result.value = arg.query

\* request r was answered from the cache
AnsweredFromCache(r) == Succeeded(r) /\ saved[r] = "none"

\* C10 as stated: over all requests, the AI endpoint is fetched at most
\* once for one raw (q, page, sort)
C10_OncePerTriple ==
    \A r1, r2 \in Req :
        (r1 # r2 /\ LookedUp(r1) /\ LookedUp(r2)
         /\ SameTriple(options[r1], options[r2]))
        => aiCalls[r1] + aiCalls[r2] <= 1

\* C10 amended: a request fetches the AI endpoint at most once and only
\* after a cache miss; a request answered from the cache never fetches it
C10_AIOnlyOnMiss ==
    \A r \in Req :
        /\ aiCalls[r] <= 1
        /\ AnsweredFromCache(r) => aiCalls[r] = 0
        /\ (aiCalls[r] = 1 /\ saved[r] = "none") => cacheKey[r] \notin DOMAIN cache[r]

\* with the AI key configured, a request answered from the cache without an
\* AI fetch, after a request with the same triple that fetched it
C10_Witness ==
    /\ Truthy(HACKCLUB_API_KEY)
    /\ \E r1, r2 \in Req :
          /\ r1 # r2 /\ Searched(r1) /\ aiCalls[r1] = 1
          /\ AnsweredFromCache(r2) /\ aiCalls[r2] = 0
          /\ SameTriple(options[r1], options[r2])

----------------------------------------------------------------------------
(* The handler's defaults *)

HandlerApplied == fn = "HandlerOptions" /\ out.applied

\* C11: when the request has no page the handler passes the number 1 as
\* page, and when it has no sort the handler passes the string "default"
\* as sort
C11_HandlerDefaults ==
    HandlerApplied =>
        /\ arg.page = Undefined => out.result.page = Num(1)
        /\ arg.sort = Undefined => out.result.sort = Str(<<"default">>)

C11_Witness ==
    /\ HandlerApplied
    /\ arg.page = Undefined
    /\ arg.sort = Undefined
    /\ out.result.page = Num(1)

\* parseInt(page) is falsy: NaN or 0
FalsyParse(page) == Truthy(page) /\ ~Truthy(ParseInt(page.s))

\* C12 as stated: when the request has no page the page passed is the
\* string "default", and a falsy result of parsing page is replaced by the
\* string "default"
C12_PageBecomesDefaultString ==
    HandlerApplied =>
        /\ arg.page = Undefined => out.result.page = Str(<<"default">>)
        /\ FalsyParse(arg.page) => out.result.page = Str(<<"default">>)

\* C12 amended: the page passed is never the string "default": without a
\* page (or with an empty one) it is the number 1, and a falsy result of
\* parsing page, NaN or 0, is passed as it is
C12_PageNeverDefaultString ==
    HandlerApplied =>
        /\ out.result.page # Str(<<"default">>)
        /\ ~Truthy(arg.page) => out.result.page = Num(1)
        /\ FalsyParse(arg.page) => out.result.page = ParseInt(arg.page.s)

C12_Witness ==
    /\ HandlerApplied
    /\ FalsyParse(arg.page)
    /\ out.result.page = NaN

----------------------------------------------------------------------------
(* The check of the search credential *)

\* request r missed the cache and has no search credential
MissWithoutKey(r) ==
    /\ LookedUp(r)
    /\ ~AnsweredFromCache(r)
    /\ ~Truthy(options[r].rapidApiKey)

\* C13: a request that has no search credential and is not answered from
\* the cache issues no outbound call, neither to the AI endpoint nor to
\* the search endpoint: 'RapidAPI key is required' is raised before any
C13_KeyRequiredBeforeAnyCall ==
    \A r \in Req :
        MissWithoutKey(r) => aiCalls[r] = 0 /\ searchCalls[r] = <<>>

----------------------------------------------------------------------------
(* What reaches the handler *)

\* the three failures of searchAliExpress, told by their messages
IsMissingQuery(e) ==
    e.name = "Error" /\ e.message = <<"Search query (q) is required">>
IsMissingKey(e) ==
    /\ e.name = "Error"
    /\ e.message = <<"RapidAPI key is required. Set RAPIDAPI_KEY in .env file">>
IsExhaustion(e) ==
    /\ e.name = "Error"
    /\ StartsWith(e.message, <<"Failed to search AliExpress with all ">>)

\* request r went through the handler into searchAliExpress and is answered
Handled(r) == via[r] = "http" /\ pc[r] = "done" /\ res[r].status # 400

\* C14: whatever the cache read, the cache write, the AI call and the
\* search calls do, searchAliExpress called for a request returns a result
\* list or throws one of three errors (missing query, missing search
\* credential, all keys failed), and the handler answers 200 with the
\* list or 500 with that error's message
C14_OnlyThreeFailures ==
    \A r \in Req :
        Handled(r) =>
            \/ /\ ret[r].kind = "return"
               /\ res[r] = OkResponse(ret[r].value)
            \/ /\ ret[r].kind = "throw"
               /\ \/ IsMissingQuery(ret[r].error)
                  \/ IsMissingKey(ret[r].error)
                  \/ IsExhaustion(ret[r].error)
               /\ res[r].status = 500
               /\ res[r].error = ret[r].error.message

\* a request whose AI call was made and whose two keys both failed, the
\* last one not with a 403
C14_Witness ==
    \E r \in Req :
        /\ Handled(r)
        /\ aiCalls[r] = 1
        /\ Len(searchCalls[r]) = 2
        /\ ~only403[r]
        /\ ret[r].kind = "throw"
        /\ IsExhaustion(ret[r].error)

----------------------------------------------------------------------------
(* Cache I/O failures *)

\* request r goes on as after a miss: nothing is returned, the optimizer is
\* started with q
GoesOnAsMiss(r) ==
    /\ ret'[r] = NoRet
    /\ res'[r] = NoRes
    /\ IF OptimizerConfigured(HACKCLUB_API_KEY)
       THEN pc'[r] = "optimizing" /\ aiCalls'[r] = 1
       ELSE pc'[r] = "optimized" /\ optimizedQuery'[r] = options'[r].q

\* C15: when the cache file is absent or its read fails, the request goes
\* on as after a miss with an empty cache; when the write of the cache
\* fails, the fresh result list is returned all the same and nothing is
\* thrown
C15_CacheFailuresAbsorbed ==
    [][\A r \in Req :
        /\ (Arrives(r) /\ LookedUp(r)' /\ (readFailed'[r] \/ ~file.exists)) =>
               (cache'[r] = EmptyCache /\ GoesOnAsMiss(r))
        /\ (pc[r] = "searching" /\ saved'[r] = "failed") =>
               /\ ret'[r] = [kind |-> "return",
                             value |-> ProjectResults(answer'[r].resultList).results]
               /\ pc'[r] = "done"
               /\ via[r] = "http" => res'[r] = OkResponse(ret'[r].value)]_vars

\* a request whose read of an existing file failed, and whose write failed
\* too, and which returned its list
C15_Witness ==
    \E r \in Req :
        /\ readFailed[r]
        /\ saved[r] = "failed"
        /\ Succeeded(r)
        /\ ret[r].value # <<>>

----------------------------------------------------------------------------
(* Concurrent misses of one key *)

\* request r writes the cache file in this step
Writes(r) == pc[r] = "searching" /\ saved'[r] = "ok"

\* C16: nothing keeps two requests with one key from both missing, both
\* searching and both writing; the file changes only when a request
\* writes, and after a write the entry of the writer's key is the
\* writer's result, so the entry is that of whoever wrote last
C16_LastWriteWins ==
    [][/\ file' # file => \E r \in Req : Writes(r)
       /\ \A r \in Req :
            Writes(r) =>
                /\ file'.exists
                /\ cacheKey[r] \in DOMAIN file'.text
                /\ file'.text[cacheKey[r]] = JSONStringify(ret'[r].value)]_vars

\* two requests with one key, both read the file without failure, both
\* missed, both searched and wrote different results, and the file holds
\* the result of one and not of the other
C16_Witness ==
    \E r, s \in Req :
        /\ r # s
        /\ cacheKey[r] = cacheKey[s]
        /\ ~readFailed[r] /\ ~readFailed[s]
        /\ Searched(r) /\ saved[r] = "ok"
        /\ Searched(s) /\ saved[s] = "ok"
        /\ JSONStringify(ret[r].value) # JSONStringify(ret[s].value)
        /\ file.text[cacheKey[s]] = JSONStringify(ret[s].value)

----------------------------------------------------------------------------
(* The order of the keys *)

RECURSIVE Join(_)
\* keys.join(',')
Join(keys) ==
    IF keys = <<>> THEN <<>>
    ELSE IF Len(keys) = 1 THEN keys[1]
    ELSE keys[1] \o <<",">> \o Join(Tail(keys))

NotSpace(t) == t # " "

\* keys is the configured list of v: the array itself, or for a string
\* (whose keys hold no space) its parts between the commas, spaces removed
ConfiguredOrder(keys, v) ==
    IF v.t = "array" THEN keys = v.a
    ELSE /\ Join(keys) = SelectSeq(v.s, NotSpace)
         /\ \A n \in 1..Len(keys) : "," \notin {keys[n][m] : m \in 1..Len(keys[n])}

\* the kinds of failure of one key
KeyFailures == {"403", "status", "neterr", "errfield"}

\* the search fetch of request r settles in this step
Answered(r) == pc[r] = "searching" /\ (i'[r] # i[r] \/ pc'[r] # "searching")

\* C17: in one run the search requests carry the configured keys in
\* their order, one request per key at most; a failure of a key that is
\* not the last (403, another status that is not ok, an error field, a
\* transport error) throws nothing and is followed by a request with the
\* next key; the first success ends the run, and no request follows it
C17_KeysInOrder ==
    [][\A r \in Req :
        /\ searchCalls'[r] # <<>> =>
               /\ ConfiguredOrder(apiKeys'[r], options'[r].rapidApiKey)
               /\ Len(searchCalls'[r]) <= Len(apiKeys'[r])
               /\ \A n \in 1..Len(searchCalls'[r]) :
                      searchCalls'[r][n].key = apiKeys'[r][n]
        /\ (Answered(r) /\ answer'[r].kind \in KeyFailures
               /\ Len(searchCalls[r]) < Len(apiKeys[r])) =>
               /\ pc'[r] = "searching"
               /\ ret'[r] = NoRet
               /\ Len(searchCalls'[r]) = Len(searchCalls[r]) + 1
               /\ SubSeq(searchCalls'[r], 1, Len(searchCalls[r])) = searchCalls[r]
        /\ (Answered(r) /\ answer'[r].kind = "ok"
               /\ ~ProjectResults(answer'[r].resultList).threw) =>
               /\ pc'[r] = "done"
               /\ ret'[r].kind = "return"
               /\ searchCalls'[r] = searchCalls[r]
        /\ pc[r] = "done" => searchCalls'[r] = searchCalls[r]]_vars

\* a request answered after its first key failed with something other
\* than a 403 and its second key, the part after the comma, succeeded
C17_Witness ==
    \E r \in Req :
        /\ via[r] = "http"
        /\ Succeeded(r)
        /\ ~only403[r]
        /\ Len(searchCalls[r]) = 2
        /\ searchCalls[r][1].key = <<"p">>
        /\ searchCalls[r][2].key = <<"q">>

----------------------------------------------------------------------------
(* The cache key and the triple *)

\* C18: a request answered from the cache gets a list that a request with
\* the same (q, page, sort) stored, and two requests of the handler whose
\* triples differ have different cache keys
C18_KeyInjective ==
    \A r, s \in Req :
        /\ AnsweredFromCache(s) =>
               \E w \in Req \ {s} :
                   /\ saved[w] = "ok"
                   /\ SameTriple(options[w], options[s])
                   /\ JSONStringify(ret[w].value) = JSONStringify(ret[s].value)
        /\ (via[r] = "http" /\ via[s] = "http" /\ LookedUp(r) /\ LookedUp(s)
               /\ ~SameTriple(options[r], options[s])) =>
               cacheKey[r] # cacheKey[s]

----------------------------------------------------------------------------
(* Entries of the persisted cache *)

\* no read and no write of the cache has failed
CacheIOSound == \A r \in Req : ~readFailed[r] /\ saved[r] # "failed"

\* the entries of the cache file
Persisted(f) == IF f.exists THEN DOMAIN f.text ELSE {}

\* C19: as long as no cache read or write fails, an entry that is in the
\* cache file stays in it, whatever the requests do and in whatever order
C19_EntriesNeverRemoved ==
    [][CacheIOSound' => Persisted(file) \subseteq Persisted(file')]_vars

----------------------------------------------------------------------------
(* What a run does to the cache file *)

\* the entry of key k in file f, or none
Entry(f, k) == IF k \in Persisted(f) THEN <<f.text[k]>> ELSE <<>>

\* C20: a run that throws and a run answered from the cache leave the
\* cache file as it was; the file is written only by a run whose search
\* succeeded, once, and (no cache read or write failing) the write changes
\* nothing but the entry of the run's own key
C20_WriteOnlyOwnEntry ==
    [][/\ file' # file =>
            \E r \in Req :
                /\ Writes(r)
                /\ saved[r] = "none"
                /\ ret'[r].kind = "return"
                /\ answer'[r].kind = "ok"
       /\ \A r \in Req :
            (Writes(r) /\ CacheIOSound') =>
                \A k \in (Persisted(file) \cup Persisted(file')) \ {cacheKey[r]} :
                    Entry(file', k) = Entry(file, k)]_vars

====
